---------------------------- MODULE Spec2Model ----------------------------
(***************************************************************************)
(* Extraction & trend pipeline of health-insight-track.                    *)
(*                                                                         *)
(*   BloodReportExtractor  (src/unnamed/part_009)  OCR orchestration,      *)
(*                         parameter extraction, report assembly, batch    *)
(*   PatientHistoryService (src/src/main.tsx)      per-patient history and *)
(*                         trend engine                                    *)
(*   handleFileUpload      (src/unnamed/part_008)  batch ingestion         *)
(*                                                                         *)
(* Numbers with one decimal are kept in tenths (12.0 is 120), dates are    *)
(* day numbers, and a recognized text is kept as what the extractor reads  *)
(* from it: its length and, per pattern, the capture the pattern yields.   *)
(***************************************************************************)
EXTENDS Integers, Sequences, FiniteSets, TLC

VARIABLES
    files,          \* processFiles: the batch, File[]
    i,              \* processFiles: loop index (1-based)
    results,        \* processFiles: results[]
    bpc,            \* processFiles: position ("loop", "await", "done")
    progress,       \* last value handed to progressCallback
    fpc,            \* processFile: position inside the current file
    extractedText,  \* processImageFile: extractedText / processPDFFile: allExtractedText
    ocrMethod,      \* processImageFile: ocrMethod
    timer,          \* a setTimeout reject is racing the pending await
    fresult,        \* processFile: <<r>> once it returned Report r, <<>> for null
    numPages,       \* processPDFFile: pages.length
    page,           \* processPDFFile: loop index i (0-based)
    ocrPipeline,    \* module-level ocrPipeline
    isOCRLoading,   \* module-level isOCRLoading
    gpModel,        \* getOCRPipeline: index of the model being loaded
    nextId,         \* stands for Math.random() ids: a fresh id per report
    attempted,      \* indices of the files handed to processFile, in order
    inFlight,       \* files whose ocr(...) promise lost its race and is still pending
    stored,         \* localStorage[STORAGE_KEY]: the saved PatientHistory[]
    upc,            \* handleFileUpload: position
    extractedReports, \* handleFileUpload: what processFiles returned
    k,              \* handleFileUpload: index of the report being saved
    atStart,        \* the stored histories when the upload began
    series,         \* trend engine input: TrendPoint[]
    trend,          \* trend engine output for series
    argValue,       \* getParameterStatus: value
    argRange,       \* getParameterStatus: optimalRange
    retStatus,      \* getParameterStatus: <<status>> once it returned
    argText,        \* extractParameters: text
    retParameters,  \* extractParameters: <<parameters>> once it returned
    callers         \* getOCRPipeline: position, model index and result of each call

pipeVars == <<files, i, results, bpc, progress, fpc, extractedText,
              ocrMethod, timer, fresult, numPages, page,
              ocrPipeline, isOCRLoading, gpModel, nextId, attempted, inFlight>>
histVars == <<stored>>
upVars   == <<upc, extractedReports, k, atStart>>
callVars == <<argValue, argRange, retStatus, argText, retParameters, callers>>
trendVars == <<series, trend, callVars>>
vars == <<pipeVars, histVars, upVars, trendVars>>

-----------------------------------------------------------------------------
(* Bounds of the model *)

MaxFiles == 2
MaxDate == 3
MaxPdfPages == 4

(* Program constants *)

MinUsableLength == 10
MinPdfTextLength == 50
PagesToProcess == 3
NumOcrModels == 3

Null == "null"

Today == MaxDate
Yesterday == Today - 1
Dates == 1..MaxDate


-----------------------------------------------------------------------------
(* Reference-range expressions and the status classifier                   *)

(* A range expression is the string as a sequence of tokens: a number (in  *)
(* tenths) or a symbol.  "12.0-15.5" is <<Num(120), Sym("-"), Num(155)>>.   *)
Num(n) == [num |-> TRUE, v |-> n, s |-> ""]
Sym(c) == [num |-> FALSE, v |-> 0, s |-> c]

RECURSIVE SplitDash(_)
(* String.prototype.split('-'): the parts between the "-" tokens *)
SplitDash(str) ==
    IF \E j \in 1..Len(str) : str[j] = Sym("-")
    THEN LET j == CHOOSE j \in 1..Len(str) :
                      /\ str[j] = Sym("-")
                      /\ \A h \in 1..(j - 1) : str[h] # Sym("-")
         IN <<SubSeq(str, 1, j - 1)>> \o SplitDash(SubSeq(str, j + 1, Len(str)))
    ELSE <<str>>

(* a parse that yields 0 where there is no number *)
ParseFloat_ZeroForNaN(str) ==
    IF Len(str) > 0 /\ str[1].num
    THEN [nan |-> FALSE, v |-> str[1].v] ELSE [nan |-> FALSE, v |-> 0]

(* parseFloat: the leading number of the string, NaN when there is none *)
ParseFloat(str) ==
    IF Len(str) > 0 /\ str[1].num
    THEN [nan |-> FALSE, v |-> str[1].v] ELSE [nan |-> TRUE, v |-> 0]

(* a classifier without the critical tier *)
GetParameterStatus_NoCritical(value, optimalRange) ==
    LET range == SplitDash(optimalRange) IN
    IF Len(range) # 2 THEN "normal"
    ELSE LET min == ParseFloat(range[1])
             max == ParseFloat(range[2])
         IN IF min.nan \/ max.nan THEN "normal"
            ELSE IF value < min.v THEN "low"
                 ELSE IF value > max.v THEN "high"
                      ELSE "normal"

GetParameterStatus(value, optimalRange) ==
    LET range == SplitDash(optimalRange) IN
    IF Len(range) # 2 THEN "normal"
    ELSE LET min == ParseFloat(range[1])
             max == ParseFloat(range[2])
         IN IF min.nan \/ max.nan THEN "normal"
            ELSE IF value < min.v
                 THEN (IF value * 10 < min.v * 7 THEN "critical" ELSE "low")
                 ELSE IF value > max.v
                      THEN (IF value * 10 > max.v * 13 THEN "critical" ELSE "high")
                      ELSE "normal"

(* the dashboard's getParameterStatus: String.includes, replace of the     *)
(* first "<" or ">", split("-") and parseFloat; a comparison with NaN is   *)
(* false                                                                   *)
Includes(str, c) == \E j \in 1..Len(str) : str[j] = Sym(c)

RemoveFirst(str, c) ==
    LET j == CHOOSE j \in 1..Len(str) :
                /\ str[j] = Sym(c)
                /\ \A h \in 1..(j - 1) : str[h] # Sym(c)
    IN SubSeq(str, 1, j - 1) \o SubSeq(str, j + 1, Len(str))

Less(a, b) == ~a.nan /\ ~b.nan /\ a.v < b.v

DashboardGetParameterStatus(value, optimal) ==
    LET v == [nan |-> FALSE, v |-> value] IN
    IF Includes(optimal, "<")
    THEN (IF Less(v, ParseFloat(RemoveFirst(optimal, "<"))) THEN "normal" ELSE "high")
    ELSE IF Includes(optimal, ">")
    THEN (IF Less(ParseFloat(RemoveFirst(optimal, ">")), v) THEN "normal" ELSE "low")
    ELSE IF Includes(optimal, "-")
    THEN LET parts == SplitDash(optimal)
             min == ParseFloat(parts[1])
             max == ParseFloat(parts[2])
         IN IF Less(v, min) THEN "low"
            ELSE IF Less(max, v) THEN "high"
            ELSE "normal"
    ELSE "normal"

-----------------------------------------------------------------------------
(* The pattern table and parameter extraction                              *)

(* Four of the table's parameters: a bounded range, the two cell counts    *)
(* and an open-ended range.  patterns is the length of the parameter's pattern    *)
(* list; pattern j of a parameter is identified by its index j.            *)
parameterPatterns ==
    [hemoglobin  |-> [patterns |-> 13, unit |-> "g/dL",
                      optimal |-> <<Num(120), Sym("-"), Num(155)>>],
     wbc         |-> [patterns |-> 11, unit |-> "K/uL",
                      optimal |-> <<Num(45), Sym("-"), Num(110)>>],
     platelets   |-> [patterns |-> 11, unit |-> "K/uL",
                      optimal |-> <<Num(1500), Sym("-"), Num(4500)>>],
     cholesterol |-> [patterns |-> 9, unit |-> "mg/dL",
                      optimal |-> <<Sym("<"), Num(2000)>>]]

(* Object.entries(parameterPatterns): the table's keys in table order *)
ParamOrder == <<"hemoglobin", "wbc", "platelets", "cholesterol">>
ParamNames == {ParamOrder[j] : j \in 1..Len(ParamOrder)}

(* What text.match(pattern) yields: no match, or the capture match[1] read *)
(* by parseFloat (the captures are \d+\.?\d*, so a number >= 0) and        *)
(* whether match[2] holds a "k".                                           *)
NoCap == [m |-> FALSE, v |-> 0, unitK |-> FALSE]
Cap(val) == [m |-> TRUE, v |-> val, unitK |-> FALSE]

NoCaps == [p \in ParamNames |->
             [j \in 1..parameterPatterns[p].patterns |-> NoCap]]
CapsAt(p, j, val) == [NoCaps EXCEPT ![p][j] = Cap(val)]

InsightKeys == {<<"hemoglobin", "low">>, <<"hemoglobin", "high">>,
                <<"wbc", "low">>, <<"wbc", "high">>}

GetParameterInsights(paramName, status) ==
    IF <<paramName, status>> \in InsightKeys
    THEN <<paramName, status>> ELSE <<>>

RECURSIVE FirstPattern_AcceptZero(_, _, _)
(* a loop that also accepts a capture of 0 *)
FirstPattern_AcceptZero(text, paramName, j) ==
    IF j > parameterPatterns[paramName].patterns THEN 0
    ELSE LET match == text.caps[paramName][j] IN
         IF match.m /\ match.v >= 0 THEN j
         ELSE FirstPattern_AcceptZero(text, paramName, j + 1)

RECURSIVE FirstPattern(_, _, _)
(* the for loop over config.patterns: the index of the first pattern that  *)
(* matches with a capture > 0, or 0 when the loop ends without a break     *)
FirstPattern(text, paramName, j) ==
    IF j > parameterPatterns[paramName].patterns THEN 0
    ELSE LET match == text.caps[paramName][j] IN
         IF match.m /\ match.v > 0 THEN j
         ELSE FirstPattern(text, paramName, j + 1)

(* a conversion in which each of the three blocks divides what the block   *)
(* before it left                                                          *)
FinalValue_DividedAgain(paramName, match) ==
    LET value == match.v
        v1 == IF /\ paramName \in {"wbc", "platelets"}
                 /\ (match.unitK \/ value > 1000 * 10)
                 /\ value > 1000 * 10
              THEN value \div 1000 ELSE value
        v2 == IF paramName = "wbc" /\ value > 1000 * 10
              THEN v1 \div 1000 ELSE v1
        v3 == IF paramName = "platelets" /\ value > 1000 * 10
              THEN v2 \div 1000 ELSE v2
    IN v3

(* the unit conversions: finalValue is value / 1000, assigned from value   *)
(* in each block that applies                                              *)
FinalValue(paramName, match) ==
    LET value == match.v
        v1 == IF /\ paramName \in {"wbc", "platelets"}
                 /\ (match.unitK \/ value > 1000 * 10)
                 /\ value > 1000 * 10
              THEN value \div 1000 ELSE value
        v2 == IF paramName = "wbc" /\ value > 1000 * 10
              THEN value \div 1000 ELSE v1
        v3 == IF paramName = "platelets" /\ value > 1000 * 10
              THEN value \div 1000 ELSE v2
    IN v3

ExtractedReading(text, paramName) ==
    LET config == parameterPatterns[paramName]
        match == text.caps[paramName][FirstPattern(text, paramName, 1)]
        finalValue == FinalValue(paramName, match)
        status == GetParameterStatus(finalValue, config.optimal)
    IN [value |-> finalValue, unit |-> config.unit, optimal |-> config.optimal,
        status |-> status,
        healthInsight |-> GetParameterInsights(paramName, status),
        recommendation |-> GetParameterInsights(paramName, status)]

ExtractParameters(text) ==
    [p \in {q \in ParamNames : FirstPattern(text, q, 1) # 0} |->
        ExtractedReading(text, p)]

ExtractDate(text) == IF text.date # 0 THEN text.date ELSE Today
ExtractReportType(text) == IF text.rtype # "" THEN text.rtype ELSE "Blood Test"
ExtractPatientName(text) == IF text.name # "" THEN text.name ELSE "Unknown Patient"

-----------------------------------------------------------------------------
(* Recognized texts                                                        *)

MkText(len, date, name, rtype, caps) ==
    [len |-> len, date |-> date, name |-> name, rtype |-> rtype, caps |-> caps]

EmptyText == MkText(0, 0, "", "", NoCaps)
(* what extractTextFromCanvas resolves with: 61 characters, no digit *)
CanvasText == MkText(MinPdfTextLength, 0, "", "", NoCaps)

(* Lengths are kept up to LongLen, the largest length the code compares   *)
(* a text's length with.                                                   *)
LongLen == MinPdfTextLength

(* texts an OCR backend or a PDF text layer may return: nothing; a short   *)
(* text with a reading; a long text without any; a long text with one      *)
Texts ==
    { EmptyText,
      MkText(20, 1, "John Smith", "", CapsAt("hemoglobin", 5, 132)),
      MkText(LongLen, 0, "", "", NoCaps),
      MkText(LongLen, 2, "", "cbc", CapsAt("hemoglobin", 8, 100)) }

(* a + b + ' ': a match is the leftmost one, so a's capture wins *)
Concat(a, b) ==
    [len |-> IF a.len + b.len + 1 < LongLen THEN a.len + b.len + 1 ELSE LongLen,
     date |-> IF a.date # 0 THEN a.date ELSE b.date,
     name |-> IF a.name # "" THEN a.name ELSE b.name,
     rtype |-> IF a.rtype # "" THEN a.rtype ELSE b.rtype,
     caps |-> [p \in ParamNames |->
                 [j \in 1..parameterPatterns[p].patterns |->
                    IF a.caps[p][j].m THEN a.caps[p][j] ELSE b.caps[p][j]]]]

-----------------------------------------------------------------------------
(* Report assembly                                                         *)

FileTypes == {"application/pdf", "image/png", "text/plain"}

(* nameDate: the date extractDateFromFilename's patterns find in the name, *)
(* 0 when no pattern matches                                               *)
FilePool ==
    { [name |-> "scan.png", type |-> "image/png", nameDate |-> 0, size |-> 1],
      [name |-> "report_d1.pdf", type |-> "application/pdf", nameDate |-> 1, size |-> 2],
      [name |-> "notes.txt", type |-> "text/plain", nameDate |-> 0, size |-> 1] }

ExtractDateFromFilename(filename, nameDate) ==
    IF nameDate # 0 THEN nameDate ELSE Yesterday

(* a fallback report that drops the reason *)
CreateFallbackReport_NoReason(file, failureReason, id) ==
    [id |-> id,
     date |-> ExtractDateFromFilename(file.name, file.nameDate),
     type |-> "Blood Test",
     fileName |-> file.name,
     patientName |-> "Urmila Sharma",
     parameters |->
        [p \in {"manual_entry_required"} |->
           [value |-> 0, unit |-> "N/A", optimal |-> <<Sym("N/A")>>,
            status |-> "manual_entry_needed",
            healthInsight |-> <<"PDF processing failed. Please enter the results manually.">>,
            recommendation |-> <<"Use the Manual Data Entry tab">>]],
     uploadDate |-> Today,
     reportDate |-> ExtractDateFromFilename(file.name, file.nameDate),
     metadata |-> <<[processingFailed |-> TRUE,
                     failureReason |-> "",
                     requiresManualEntry |-> TRUE,
                     originalFileType |-> file.type,
                     fileSize |-> file.size]>>]

CreateFallbackReport(file, failureReason, id) ==
    [id |-> id,
     date |-> ExtractDateFromFilename(file.name, file.nameDate),
     type |-> "Blood Test",
     fileName |-> file.name,
     patientName |-> "Urmila Sharma",
     parameters |->
        [p \in {"manual_entry_required"} |->
           [value |-> 0, unit |-> "N/A", optimal |-> <<Sym("N/A")>>,
            status |-> "manual_entry_needed",
            healthInsight |-> <<"PDF processing failed: ", failureReason,
                                ". Please enter the blood test results manually.">>,
            recommendation |-> <<"Use the Manual Data Entry tab">>]],
     uploadDate |-> Today,
     reportDate |-> ExtractDateFromFilename(file.name, file.nameDate),
     metadata |-> <<[processingFailed |-> TRUE,
                     failureReason |-> failureReason,
                     requiresManualEntry |-> TRUE,
                     originalFileType |-> file.type,
                     fileSize |-> file.size]>>]

(* the report literal returned on success by processImageFile/processPDFFile *)
ExtractedReport(file, text, id) ==
    [id |-> id,
     date |-> ExtractDate(text),
     type |-> ExtractReportType(text),
     fileName |-> file.name,
     patientName |-> ExtractPatientName(text),
     parameters |-> ExtractParameters(text),
     uploadDate |-> Today,
     reportDate |-> ExtractDate(text),
     metadata |-> <<>>]

(* the tail of processImageFile / processPDFFile, from the length check on *)
AssembleReport(file, text, minLen, shortReason, noParamReason, id) ==
    IF text.len < minLen THEN CreateFallbackReport(file, shortReason, id)
    ELSE IF DOMAIN ExtractParameters(text) = {}
         THEN CreateFallbackReport(file, noParamReason, id)
         ELSE ExtractedReport(file, text, id)

-----------------------------------------------------------------------------
(* BloodReportExtractor.processFiles / processFile                         *)

file == files[i]

ShortImageReason == "All OCR methods failed or returned minimal text from image"
NoParamImageReason == "No blood test parameters could be extracted from the image text"
ShortPdfReason == "OCR extraction returned minimal or no text from PDF"
NoParamPdfReason == "No blood test parameters could be extracted from the PDF text"
PdfLoadReason == "PDF processing failed: load error"

(* a loop that gives up at the first file without extracted data *)
NextFileIndex_AbortOnFailure(idx, result) ==
    IF result = <<>> \/ result[1].metadata # <<>> THEN Len(files) + 1 ELSE idx + 1

(* the for loop's i++ : the next file is attempted whatever the result *)
NextFileIndex(idx, result) == idx + 1

(* a push that keeps only the reports with extracted data *)
Collect_DropSentinel(res, result) ==
    IF result # <<>> /\ result[1].metadata = <<>> THEN Append(res, result[1]) ELSE res

(* results.push(result) only for a non-null result *)
Collect(res, result) == IF result # <<>> THEN Append(res, result[1]) ELSE res

(* a dispatch that knows PDFs only *)
Dispatch_PdfOnly(f) ==
    IF f.type = "application/pdf" THEN "pdf_load" ELSE "done"

(* a dispatch that takes every file that is no PDF for an image *)
Dispatch_ImageByDefault(f) ==
    IF f.type = "application/pdf" THEN "pdf_load" ELSE "img_preprocess"

(* processFile's dispatch on file.type: where the file's processing starts *)
Dispatch(f) ==
    IF f.type = "application/pdf" THEN "pdf_load"
    ELSE IF f.type \in {"image/png", "image/jpeg"} THEN "img_preprocess"
         ELSE "done"

(* one iteration of the for loop up to the await of processFile *)
ProcessFilesNext ==
    /\ bpc = "loop" /\ i <= Len(files)
    /\ progress' = <<[current |-> i, total |-> Len(files), currentFile |-> file.name]>>
    /\ bpc' = "await"
    /\ attempted' = Append(attempted, i)
    /\ extractedText' = EmptyText /\ ocrMethod' = ""
    /\ numPages' = 0 /\ page' = 0
    /\ fpc' = Dispatch(file) /\ fresult' = <<>>
    /\ UNCHANGED <<files, i, results, timer, ocrPipeline, isOCRLoading,
                   gpModel, nextId, inFlight>>

(* processFile settled: the result is pushed unless null, then i++ *)
ProcessFilesCollect ==
    /\ bpc = "await" /\ fpc = "done"
    /\ results' = Collect(results, fresult)
    /\ i' = NextFileIndex(i, fresult)
    /\ bpc' = "loop" /\ fpc' = "idle" /\ fresult' = <<>>
    /\ UNCHANGED <<files, progress, extractedText, ocrMethod, timer,
                   numPages, page, ocrPipeline, isOCRLoading, gpModel,
                   nextId, attempted, inFlight>>

ProcessFilesReturn ==
    /\ bpc = "loop" /\ i > Len(files)
    /\ bpc' = "done"
    /\ UNCHANGED <<files, i, results, progress, fpc, extractedText,
                   ocrMethod, timer, fresult, numPages, page,
                   ocrPipeline, isOCRLoading, gpModel, nextId, attempted,
                   inFlight>>

-----------------------------------------------------------------------------
(* BloodReportExtractor.processImageFile.  One action is the code between  *)
(* two awaits; what the awaited backend answers is chosen by \E.  A backend *)
(* that never answers is the action never taken.                           *)

batchVars == <<files, i, results, bpc, progress, attempted, inFlight>>
pdfVars == <<numPages, page>>
ocrVars == <<ocrPipeline, isOCRLoading, gpModel>>

ImageReturn(text) ==
    AssembleReport(file, text, MinUsableLength, ShortImageReason,
                   NoParamImageReason, nextId)

(* an end of Method 1 that goes on to Method 2 whatever the text *)
AfterMethod1_AlwaysNext(text, method) ==
    /\ extractedText' = text /\ ocrMethod' = method /\ timer' = FALSE
    /\ fpc' = "img_tess"
    /\ fresult' = <<>> /\ nextId' = nextId

(* from the end of Method 1 to the next await or the return *)
AfterMethod1(text, method) ==
    /\ extractedText' = text /\ ocrMethod' = method /\ timer' = FALSE
    /\ IF text.len < MinUsableLength
       THEN /\ fpc' = "img_tess"
            /\ fresult' = <<>> /\ nextId' = nextId
       ELSE /\ fpc' = "done"
            /\ fresult' = <<ImageReturn(text)>> /\ nextId' = nextId + 1

(* from the end of Method 2 to the next await or the return *)
AfterMethod2(text, method) ==
    /\ extractedText' = text /\ ocrMethod' = method /\ timer' = FALSE
    /\ IF text.len < MinUsableLength
       THEN /\ fpc' = "img_canvas"
            /\ fresult' = <<>> /\ nextId' = nextId
       ELSE /\ fpc' = "done"
            /\ fresult' = <<ImageReturn(text)>> /\ nextId' = nextId + 1

(* from the end of Method 3 to the return *)
AfterMethod3(text, method) ==
    /\ extractedText' = text /\ ocrMethod' = method /\ timer' = FALSE
    /\ fpc' = "done"
    /\ fresult' = <<ImageReturn(text)>> /\ nextId' = nextId + 1

(* await this.preprocessImageForOCR(file): img.onload or img.onerror *)
ImgPreprocess ==
    /\ fpc = "img_preprocess"
    /\ \/ /\ fpc' = "getOCRPipeline"
          /\ UNCHANGED <<extractedText, ocrMethod, timer, fresult, nextId>>
       \/ AfterMethod1(extractedText, ocrMethod)
    /\ UNCHANGED <<batchVars, pdfVars, ocrVars>>

(* getOCRPipeline returned to its caller: the race of Method 1, or the     *)
(* canvas branch of extractTextFromPDFSimple                                *)
PipelineReturned ==
    IF file.type = "application/pdf"
    THEN fpc' = "pdf_ocr" /\ timer' = FALSE
    ELSE fpc' = "img_hf" /\ timer' = TRUE

(* getOCRPipeline threw: the catch of Method 1, or canvasError *)
PipelineThrew ==
    IF file.type = "application/pdf"
    THEN /\ fpc' = "pdf_tess"
         /\ UNCHANGED <<extractedText, ocrMethod, timer, fresult, nextId>>
    ELSE AfterMethod1(extractedText, ocrMethod)

(* getOCRPipeline up to its first await.  No other caller runs during a    *)
(* batch, so isOCRLoading is false on entry.                                *)
GetOCRPipelineEnter ==
    /\ fpc = "getOCRPipeline" /\ ~isOCRLoading
    /\ IF ocrPipeline = Null
       THEN /\ isOCRLoading' = TRUE /\ gpModel' = 1 /\ fpc' = "gp_load"
            /\ UNCHANGED <<ocrPipeline, timer>>
       ELSE /\ PipelineReturned
            /\ UNCHANGED <<ocrPipeline, isOCRLoading, gpModel>>
    /\ UNCHANGED <<batchVars, pdfVars, extractedText, ocrMethod, fresult, nextId>>

(* await pipeline('image-to-text', modelName): the model loads *)
GetOCRPipelineLoaded ==
    /\ fpc = "gp_load"
    /\ ocrPipeline' = "engine" /\ isOCRLoading' = FALSE
    /\ PipelineReturned
    /\ UNCHANGED <<batchVars, pdfVars, gpModel, extractedText, ocrMethod, fresult,
                   nextId>>

(* await pipeline(...) rejects: the next model, or the throw after the last *)
GetOCRPipelineLoadFailed ==
    /\ fpc = "gp_load"
    /\ IF gpModel < NumOcrModels
       THEN /\ gpModel' = gpModel + 1
            /\ UNCHANGED <<fpc, isOCRLoading, extractedText, ocrMethod, timer,
                           fresult, nextId>>
       ELSE /\ isOCRLoading' = FALSE /\ gpModel' = gpModel
            /\ PipelineThrew
    /\ UNCHANGED <<batchVars, pdfVars, ocrPipeline>>

(* Promise.race([ocr(...), timeout]): the OCR call settles first *)
ImgHfResult ==
    /\ fpc = "img_hf"
    /\ \/ \E text \in Texts : AfterMethod1(text, "Hugging Face")
       \/ AfterMethod1(extractedText, ocrMethod)
    /\ UNCHANGED <<batchVars, pdfVars, ocrVars>>

(* Promise.race([ocr(...), timeout]): the 30 s timer rejects first; the   *)
(* ocr(...) promise stays pending                                          *)
ImgHfTimeout ==
    /\ fpc = "img_hf" /\ timer
    /\ AfterMethod1(extractedText, ocrMethod)
    /\ inFlight' = inFlight \cup {i}
    /\ UNCHANGED <<files, i, results, bpc, progress, attempted, pdfVars, ocrVars>>

(* a late result that replaces the recognized text *)
TextAfterLateResult_Overwrite(current, late) == late

(* the text after a promise that lost its race settles: no handler reads   *)
(* the promise, so the text is what it was                                 *)
TextAfterLateResult(current, late) == current

(* an ocr(...) promise that lost its race settles, with a text or with an  *)
(* error                                                                   *)
LateOcrResult ==
    /\ \E j \in inFlight, late \in Texts :
          /\ inFlight' = inFlight \ {j}
          /\ extractedText' = TextAfterLateResult(extractedText, late)
    /\ UNCHANGED <<files, i, results, bpc, progress, attempted, fpc, ocrMethod,
                   timer, fresult, nextId, pdfVars, ocrVars>>

(* Method 2: import, createWorker, worker.recognize(file), terminate *)
ImgTesseract ==
    /\ fpc = "img_tess"
    /\ \/ \E text \in Texts : AfterMethod2(text, "Tesseract.js")
       \/ AfterMethod2(extractedText, ocrMethod)
    /\ UNCHANGED <<batchVars, pdfVars, ocrVars>>

(* Method 3: await this.extractTextFromCanvas(file) *)
ImgCanvas ==
    /\ fpc = "img_canvas"
    /\ \/ AfterMethod3(CanvasText, "Canvas Text Extraction")
       \/ AfterMethod3(extractedText, ocrMethod)
    /\ UNCHANGED <<batchVars, pdfVars, ocrVars>>

-----------------------------------------------------------------------------
(* BloodReportExtractor.processPDFFile and the per-page extraction         *)

Min(a, b) == IF a < b THEN a ELSE b

PdfReturn(text) ==
    AssembleReport(file, text, MinPdfTextLength, ShortPdfReason,
                   NoParamPdfReason, nextId)

(* the for loop's next iteration, or the code after the loop *)
PdfNextPage(nextPage, allText) ==
    /\ extractedText' = allText /\ timer' = FALSE
    /\ page' = nextPage
    /\ IF nextPage < Min(numPages', PagesToProcess)
       THEN /\ fpc' = "pdf_copy" /\ fresult' = <<>> /\ nextId' = nextId
       ELSE /\ fpc' = "done" /\ fresult' = <<PdfReturn(allText)>>
            /\ nextId' = nextId + 1

(* extractTextFromPDFPageWithOCR returned text: the page's text is kept    *)
(* when longer than 10 characters                                          *)
PdfPageDone(text) ==
    /\ numPages' = numPages
    /\ PdfNextPage(page + 1,
                   IF text.len > MinUsableLength
                   THEN Concat(extractedText, text) ELSE extractedText)

PdfToTesseract ==
    /\ fpc' = "pdf_tess" /\ timer' = FALSE
    /\ UNCHANGED <<numPages, page, extractedText, fresult, nextId>>

(* await file.arrayBuffer(); await PDFDocument.load(arrayBuffer) *)
PdfLoad ==
    /\ fpc = "pdf_load"
    /\ \/ \E n \in 0..MaxPdfPages :
            /\ numPages' = n
            /\ PdfNextPage(0, EmptyText)
       \/ /\ fpc' = "done"
          /\ fresult' = <<CreateFallbackReport(file, PdfLoadReason, nextId)>>
          /\ nextId' = nextId + 1
          /\ UNCHANGED <<numPages, page, extractedText, timer>>
    /\ UNCHANGED <<batchVars, ocrVars, ocrMethod>>

(* a page loop that hands the page to Tesseract without reading its text  *)
(* layer                                                                   *)
PdfCopy_StraightToOcr ==
    /\ fpc = "pdf_copy"
    /\ PdfToTesseract
    /\ UNCHANGED <<batchVars, ocrVars, ocrMethod>>

(* the single-page copy (create, copyPages, save), then the call of        *)
(* extractTextFromPDFPageWithOCR up to extractTextFromPDFSimple's race     *)
PdfCopy ==
    /\ fpc = "pdf_copy"
    /\ \/ /\ fpc' = "pdf_simple" /\ timer' = TRUE
          /\ UNCHANGED <<numPages, page, extractedText, fresult, nextId>>
       \/ /\ numPages' = numPages
          /\ PdfNextPage(page + 1, extractedText)
    /\ UNCHANGED <<batchVars, ocrVars, ocrMethod>>

(* extractTextFromPDFSimple: the text layer was read *)
PdfSimpleResult ==
    /\ fpc = "pdf_simple"
    /\ \E text \in Texts :
         IF text.len > MinUsableLength THEN PdfPageDone(text) ELSE PdfToTesseract
    /\ UNCHANGED <<batchVars, ocrVars, ocrMethod>>

(* extractTextFromPDFSimple: loading failed or timed out; its catch loads  *)
(* the document again and renders the page                                 *)
PdfSimpleFailed ==
    /\ fpc = "pdf_simple"
    /\ fpc' = "pdf_render" /\ timer' = FALSE
    /\ UNCHANGED <<batchVars, ocrVars, ocrMethod, numPages, page,
                   extractedText, fresult, nextId>>

(* the catch's loadingTask.promise, getPage and page.render *)
PdfRender ==
    /\ fpc = "pdf_render"
    /\ \/ fpc' = "getOCRPipeline"
       \/ fpc' = "pdf_tess"
    /\ UNCHANGED <<batchVars, ocrVars, ocrMethod, numPages, page,
                   extractedText, fresult, nextId, timer>>

(* the catch's await ocr(imageDataUrl) *)
PdfCanvasOcr ==
    /\ fpc = "pdf_ocr"
    /\ \/ \E text \in Texts :
            IF text.len > MinUsableLength THEN PdfPageDone(text) ELSE PdfToTesseract
       \/ PdfToTesseract
    /\ UNCHANGED <<batchVars, ocrVars, ocrMethod>>

(* performTesseractOCROnPDF: a text, or '' when it fails *)
PdfTesseract ==
    /\ fpc = "pdf_tess"
    /\ \E text \in Texts :
         PdfPageDone(IF text.len > MinUsableLength THEN text ELSE EmptyText)
    /\ UNCHANGED <<batchVars, ocrVars, ocrMethod>>

-----------------------------------------------------------------------------
(* The batch pipeline: processFiles over a batch of files                  *)

SeqsUpTo(S, n) == UNION {[1..m -> S] : m \in 0..n}

IdleHistory == stored = <<>>
IdleUpload == upc = "idle" /\ extractedReports = <<>> /\ k = 0 /\ atStart = <<>>
IdleCalls ==
    /\ argValue = 0 /\ argRange = <<>> /\ retStatus = <<>>
    /\ argText = EmptyText /\ retParameters = <<>>
    /\ callers = <<>>
IdleTrend == series = <<>> /\ trend = <<>> /\ IdleCalls

PipelineStart(batch) ==
    /\ files = batch
    /\ i = 1 /\ results = <<>> /\ bpc = "loop" /\ progress = <<>>
    /\ fpc = "idle" /\ extractedText = EmptyText
    /\ ocrMethod = "" /\ timer = FALSE /\ fresult = <<>> /\ numPages = 0
    /\ page = 0 /\ ocrPipeline = Null
    /\ isOCRLoading = FALSE /\ gpModel = 0 /\ nextId = 1 /\ attempted = <<>>
    /\ inFlight = {}

Init ==
    /\ \E batch \in SeqsUpTo(FilePool, MaxFiles) : PipelineStart(batch)
    /\ IdleHistory /\ IdleUpload /\ IdleTrend

nonPipe == <<histVars, upVars, trendVars>>

Next ==
    \/ ProcessFilesNext /\ UNCHANGED nonPipe
    \/ ProcessFilesCollect /\ UNCHANGED nonPipe
    \/ ProcessFilesReturn /\ UNCHANGED nonPipe
    \/ ImgPreprocess /\ UNCHANGED nonPipe
    \/ GetOCRPipelineEnter /\ UNCHANGED nonPipe
    \/ GetOCRPipelineLoaded /\ UNCHANGED nonPipe
    \/ GetOCRPipelineLoadFailed /\ UNCHANGED nonPipe
    \/ ImgHfResult /\ UNCHANGED nonPipe
    \/ ImgHfTimeout /\ UNCHANGED nonPipe
    \/ LateOcrResult /\ UNCHANGED nonPipe
    \/ ImgTesseract /\ UNCHANGED nonPipe
    \/ ImgCanvas /\ UNCHANGED nonPipe
    \/ PdfLoad /\ UNCHANGED nonPipe
    \/ PdfCopy /\ UNCHANGED nonPipe
    \/ PdfSimpleResult /\ UNCHANGED nonPipe
    \/ PdfSimpleFailed /\ UNCHANGED nonPipe
    \/ PdfRender /\ UNCHANGED nonPipe
    \/ PdfCanvasOcr /\ UNCHANGED nonPipe
    \/ PdfTesseract /\ UNCHANGED nonPipe

Spec == Init /\ [][Next]_vars

-----------------------------------------------------------------------------
(* Claims about the batch pipeline (checked under Spec)                    *)

Supported(f) == f.type = "application/pdf" \/ f.type \in {"image/png", "image/jpeg"}
Settled == bpc = "await" /\ fpc = "done"
IsSentinel(r) ==
    /\ DOMAIN r.parameters = {"manual_entry_required"}
    /\ r.parameters["manual_entry_required"].status = "manual_entry_needed"
    /\ r.metadata # <<>>
    /\ r.metadata[1].requiresManualEntry
    /\ r.metadata[1].failureReason # ""
    /\ \E j \in 1..Len(r.parameters["manual_entry_required"].healthInsight) :
         r.parameters["manual_entry_required"].healthInsight[j]
            = r.metadata[1].failureReason

(* C1 as stated: a batch of N files returns exactly N Reports, for every   *)
(* combination of file types and per-file failures.                        *)
C1_NReportsForNFiles == bpc = "done" => Len(results) = Len(files)

(* C1 amended: the returned list holds exactly one Report, in input order, *)
(* for each file whose type is PDF or image/*, whatever the per-file       *)
(* failures; a file of any other type contributes no Report.               *)
C1_OneReportPerSupportedFile ==
    LET done == SubSeq(files, 1, IF bpc = "done" THEN Len(files) ELSE i - 1)
        kept == SelectSeq(done, Supported)
    IN /\ Len(results) = Len(kept)
       /\ \A j \in 1..Len(kept) : results[j].fileName = kept[j].name

C1_Witness ==
    /\ bpc = "done" /\ Len(files) = 2 /\ Len(results) = 2
    /\ results[1].metadata # <<>> /\ results[2].metadata = <<>>

(* C2: processing one PDF or image file never ends without a Report:       *)
(* whatever the backends answered, processFile settles with exactly one    *)
(* Report for that file.                                                   *)
C2_AlwaysOneReport ==
    (Settled /\ Supported(file)) =>
        /\ Len(fresult) = 1
        /\ fresult[1].fileName = file.name

C2_Witness ==
    /\ Settled /\ file.type = "image/png" /\ Len(fresult) = 1
    /\ fresult[1].metadata # <<>>
    /\ fresult[1].metadata[1].failureReason = ShortImageReason

(* the file's extraction failed: too little text, or no parameter in it *)
ExtractionFailed ==
    \/ extractedText.len <
          (IF file.type = "application/pdf" THEN MinPdfTextLength ELSE MinUsableLength)
    \/ \A p \in ParamNames :
          \A j \in 1..parameterPatterns[p].patterns :
             ~(extractedText.caps[p][j].m /\ extractedText.caps[p][j].v > 0)

(* C3: when extraction of a file fails, the Report returned for it is a    *)
(* sentinel: one Reading, keyed manual_entry_required, with status         *)
(* manual_entry_needed and an insight embedding the failure reason, and    *)
(* metadata with requiresManualEntry and a non-empty failureReason.        *)
C3_FailureYieldsSentinel ==
    (Settled /\ Supported(file) /\ ExtractionFailed) =>
        /\ fresult # <<>>
        /\ IsSentinel(fresult[1])

C3_Witness ==
    /\ Settled /\ file.type = "image/png" /\ ExtractionFailed
    /\ extractedText.len >= MinUsableLength
    /\ fresult # <<>> /\ IsSentinel(fresult[1])
    /\ fresult[1].metadata[1].failureReason = NoParamImageReason

OcrAwaits == {"gp_load", "img_hf", "img_tess", "img_canvas", "pdf_ocr", "pdf_tess"}

(* C5: every OCR backend call made while processing a file, the lazy load  *)
(* of the engine included, is raced against a timeout, so that the file's  *)
(* processing cannot wait forever on a backend.                            *)
C5_EveryOcrAwaitHasTimeout == fpc \in OcrAwaits => timer

-----------------------------------------------------------------------------
(* PatientHistoryService: numbers                                          *)

(* A JavaScript number that a percentage can be: an exact fraction n/d in  *)
(* lowest terms, or NaN, Infinity, -Infinity; "null" is what JSON keeps of *)
(* the last three.                                                         *)
Abs(x) == IF x < 0 THEN 0 - x ELSE x

RECURSIVE Gcd(_, _)
Gcd(a, b) == IF b = 0 THEN a ELSE Gcd(b, a % b)

Rat(n, d) ==
    LET g == Gcd(Abs(n), d)
    IN [kind |-> "num", n |-> n \div g, d |-> d \div g]

NotFinite(kind) == [kind |-> kind, n |-> 0, d |-> 1]

(* (totalChange / firstValue) * 100, for values that are never negative *)
PercentChange(firstValue, lastValue) ==
    LET totalChange == lastValue - firstValue
    IN IF firstValue # 0 THEN Rat(totalChange * 100, firstValue)
       ELSE IF totalChange = 0 THEN NotFinite("NaN")
       ELSE IF totalChange > 0 THEN NotFinite("Infinity")
       ELSE NotFinite("-Infinity")

(* a comparison with half the bound *)
AbsLess_Halved(x, bound) == x.kind = "num" /\ Abs(x.n) * 2 < bound * x.d

(* Math.abs(x) < bound and x > 0: both false for NaN *)
AbsLess(x, bound) == x.kind = "num" /\ Abs(x.n) < bound * x.d
Positive(x) == x.kind = "Infinity" \/ (x.kind = "num" /\ x.n > 0)

(* JSON.stringify of a number, read back by JSON.parse *)
JsonNumber(x) == IF x.kind = "num" THEN x ELSE NotFinite("null")

-----------------------------------------------------------------------------
(* PatientHistoryService: sorting by date                                  *)

(* A date string no Date can be built from, as extractDateFromFilename     *)
(* writes for a name like lab_15-01-2025.pdf (month 15).                   *)
InvalidDate == -1

(* new Date(d).getTime() *)
GetTime(d) == [nan |-> d = InvalidDate, t |-> d]

RECURSIVE InsertByDate(_, _)
InsertByDate(sorted, x) ==
    IF sorted = <<>> THEN <<x>>
    ELSE LET n == Len(sorted)
         IN IF GetTime(sorted[n].date).t <= GetTime(x.date).t
            THEN Append(sorted, x)
            ELSE Append(InsertByDate(SubSeq(sorted, 1, n - 1), x), sorted[n])

RECURSIVE StableSortByDate(_)
StableSortByDate(s) ==
    IF s = <<>> THEN <<>>
    ELSE InsertByDate(StableSortByDate(SubSeq(s, 1, Len(s) - 1)), s[Len(s)])

PermsOf(s) ==
    { [j \in 1..Len(s) |-> s[q[j]]] : q \in Permutations(1..Len(s)) }

(* s.sort((a, b) => new Date(a.date).getTime() - new Date(b.date).getTime()) *)
(* The outcomes: the stable ascending order when every date is valid; with *)
(* an invalid date the comparator yields NaN, it is not a consistent       *)
(* comparator, and the order is whatever the engine's algorithm leaves.    *)
SortByDate(s) ==
    IF \A j \in 1..Len(s) : ~GetTime(s[j].date).nan
    THEN {StableSortByDate(s)}
    ELSE PermsOf(s)

-----------------------------------------------------------------------------
(* PatientHistoryService: the trend engine                                 *)

(* a direction that is fluctuating from the first change of direction on *)
CalculateTrendDirection_OneReversal(trendPoints) ==
    IF Len(trendPoints) < 2 THEN "stable"
    ELSE LET n == Len(trendPoints)
             values == [j \in 1..n |-> trendPoints[j].value]
             percentChange == PercentChange(values[1], values[n])
             directionChanges ==
                Cardinality({ j \in 3..n :
                    \/ values[j] > values[j - 1] /\ values[j - 1] < values[j - 2]
                    \/ values[j] < values[j - 1] /\ values[j - 1] > values[j - 2] })
         IN IF directionChanges >= 1 THEN "fluctuating"
            ELSE IF AbsLess(percentChange, 5) THEN "stable"
            ELSE IF Positive(percentChange) THEN "increasing"
            ELSE "decreasing"

CalculateTrendDirection(trendPoints) ==
    IF Len(trendPoints) < 2 THEN "stable"
    ELSE LET n == Len(trendPoints)
             values == [j \in 1..n |-> trendPoints[j].value]
             percentChange == PercentChange(values[1], values[n])
             (* at the loop's first index values[i - 2] is undefined and  *)
             (* both comparisons with it are false                         *)
             directionChanges ==
                Cardinality({ j \in 3..n :
                    \/ values[j] > values[j - 1] /\ values[j - 1] < values[j - 2]
                    \/ values[j] < values[j - 1] /\ values[j - 1] > values[j - 2] })
         IN IF directionChanges >= 2 THEN "fluctuating"
            ELSE IF AbsLess(percentChange, 5) THEN "stable"
            ELSE IF Positive(percentChange) THEN "increasing"
            ELSE "decreasing"

(* the change between the two most recent points *)
CalculateChangeRate_Recent(trendPoints) ==
    IF Len(trendPoints) < 2 THEN Rat(0, 1)
    ELSE PercentChange(trendPoints[Len(trendPoints) - 1].value,
                       trendPoints[Len(trendPoints)].value)

CalculateChangeRate(trendPoints) ==
    IF Len(trendPoints) < 2 THEN Rat(0, 1)
    ELSE PercentChange(trendPoints[1].value,
                       trendPoints[Len(trendPoints)].value)

Alert(type, text, point, paramName) ==
    [type |-> type, message |-> text, date |-> point.date,
     parameter |-> paramName, value |-> point.value]

IsCritical(q) == q.status = "critical"
(* a test that takes critical for worsening too *)
IsWorsening_WithCritical(q) == q.status \in {"high", "low", "critical"}
IsWorsening(q) == q.status = "high" \/ q.status = "low"
(* a test that takes every status but critical for normal *)
IsNormal_NotCritical(q) == q.status # "critical"
IsNormal(q) == q.status = "normal"
(* a test that takes only high and low for abnormal *)
IsAbnormal_HighOrLow(q) == q.status \in {"high", "low"}
IsAbnormal(q) == q.status # "normal"

GenerateTrendAlerts(trendPoints, paramName) ==
    IF Len(trendPoints) < 2 THEN <<>>
    ELSE LET n == Len(trendPoints)
             criticalPoints == SelectSeq(trendPoints, IsCritical)
             critical ==
                [j \in 1..Len(criticalPoints) |->
                   Alert("critical",
                         IF criticalPoints[j].value > 0
                         THEN "is critically high" ELSE "is critically low",
                         criticalPoints[j], paramName)]
             recentPoints == SubSeq(trendPoints, IF n > 3 THEN n - 2 ELSE 1, n)
             last == recentPoints[Len(recentPoints)]
             worseningCount == Len(SelectSeq(recentPoints, IsWorsening))
             warning ==
                IF worseningCount >= 2
                THEN <<Alert("warning",
                             "has been consistently abnormal in recent measurements",
                             last, paramName)>>
                ELSE <<>>
             allAbnormal == SelectSeq(trendPoints, IsAbnormal)
             recentImprovements == Len(SelectSeq(recentPoints, IsNormal))
             improvement ==
                IF Len(allAbnormal) > 0 /\ recentImprovements >= 2
                THEN <<Alert("improvement", "has improved to normal levels",
                             last, paramName)>>
                ELSE <<>>
         IN critical \o warning \o improvement

(* the ParameterTrend built from the sorted trendPoints *)
ParameterTrend(paramName, trendPoints, unit, optimalRange) ==
    [parameterName |-> paramName,
     values |-> trendPoints,
     unit |-> unit,
     optimalRange |-> optimalRange,
     trendDirection |-> CalculateTrendDirection(trendPoints),
     changeRate |-> CalculateChangeRate(trendPoints),
     alerts |-> GenerateTrendAlerts(trendPoints, paramName)]

EmptyTrends == [p \in {} |-> 0]

(* a collection that represents an absent parameter by a point of value 0 *)
RECURSIVE CollectPoints_ZeroForAbsent(_, _)
CollectPoints_ZeroForAbsent(reports, paramName) ==
    IF reports = <<>> THEN <<>>
    ELSE LET n == Len(reports)
             report == reports[n]
             before == CollectPoints_ZeroForAbsent(SubSeq(reports, 1, n - 1), paramName)
         IN Append(before,
                   [date |-> report.date,
                    value |-> IF paramName \in DOMAIN report.parameters
                              THEN report.parameters[paramName].value ELSE 0,
                    status |-> IF paramName \in DOMAIN report.parameters
                               THEN report.parameters[paramName].status ELSE "normal",
                    reportId |-> report.id])

(* the trendPoints collected for paramName, in the order of reports *)
RECURSIVE CollectPoints(_, _)
CollectPoints(reports, paramName) ==
    IF reports = <<>> THEN <<>>
    ELSE LET n == Len(reports)
             report == reports[n]
             before == CollectPoints(SubSeq(reports, 1, n - 1), paramName)
         IN IF paramName \in DOMAIN report.parameters
            THEN Append(before,
                        [date |-> report.date,
                         value |-> report.parameters[paramName].value,
                         status |-> report.parameters[paramName].status,
                         reportId |-> report.id])
            ELSE before

(* the last report, in the order of reports, that has paramName *)
LastWith(reports, paramName) ==
    LET js == { j \in 1..Len(reports) : paramName \in DOMAIN reports[j].parameters }
    IN reports[CHOOSE j \in js : \A m \in js : m <= j].parameters[paramName]

(* The outcomes of calculateParameterTrends: one per outcome of the sorts. *)
CalculateParameterTrends(reports) ==
    LET allParameters == UNION { DOMAIN reports[j].parameters : j \in 1..Len(reports) }
        orders == UNION { SortByDate(CollectPoints(reports, p)) : p \in allParameters }
    IN IF allParameters = {} THEN {EmptyTrends}
       ELSE { [p \in allParameters |->
                 ParameterTrend(p, c[p], LastWith(reports, p).unit,
                                LastWith(reports, p).optimal)] :
              c \in { c \in [allParameters -> orders] :
                        \A p \in allParameters :
                           c[p] \in SortByDate(CollectPoints(reports, p)) } }

-----------------------------------------------------------------------------
(* PatientHistoryService: the stored histories                             *)

(* JSON.stringify(histories) read back by JSON.parse: a changeRate that is *)
(* not finite comes back as null; every other field is a string, a finite  *)
(* number, a boolean, an array or an object of those and comes back equal  *)
JsonTrends(trends) ==
    [p \in DOMAIN trends |->
       [trends[p] EXCEPT !.changeRate = JsonNumber(@)]]

JsonHistories(histories) ==
    [j \in 1..Len(histories) |->
       [histories[j] EXCEPT !.parameterTrends = JsonTrends(@)]]

(* stored ? JSON.parse(stored) : [] *)
GetAllPatientHistories == stored

(* the least index in js, 0 when js is empty: what find / findIndex yield *)
FirstIndex(js) ==
    IF js = {} THEN 0 ELSE CHOOSE j \in js : \A m \in js : j <= m

(* lines 94-105: the report replaces the first stored one of the same date *)
(* and type, and is pushed when there is none                              *)
PutReport(reports, report) ==
    LET existingIndex ==
            FirstIndex({ j \in 1..Len(reports) :
                           /\ reports[j].date = report.date
                           /\ reports[j].type = report.type })
    IN IF existingIndex > 0
       THEN [reports EXCEPT ![existingIndex] = report]
       ELSE Append(reports, report)

(* the trends of the reports as they were before the call *)
TrendsFor_Stale(before, after) == CalculateParameterTrends(before)

(* line 111: the trends are those of the report list after the update *)
TrendsFor(before, after) == CalculateParameterTrends(after)

(* try { localStorage.setItem(...) } catch { log }: a write that fails     *)
(* (quota) leaves the stored value as it was                               *)
SavePatientHistories(histories, written) ==
    IF written THEN JsonHistories(histories) ELSE stored

(* addReport(report); written: whether localStorage accepts the write *)
AddReport(report, written) ==
    LET histories == GetAllPatientHistories
        found == FirstIndex({ j \in 1..Len(histories) :
                                 histories[j].patientName = report.patientName })
        created == [patientName |-> report.patientName,
                    reports |-> <<>>,
                    parameterTrends |-> EmptyTrends,
                    lastUpdated |-> Today]
        all == IF found = 0 THEN Append(histories, created) ELSE histories
        at == IF found = 0 THEN Len(all) ELSE found
        put == PutReport(all[at].reports, report)
    IN \E sorted \in SortByDate(put) :
         \E trends \in TrendsFor(all[at].reports, sorted) :
            stored' = SavePatientHistories(
                         [all EXCEPT ![at] = [patientName |-> all[at].patientName,
                                              reports |-> sorted,
                                              parameterTrends |-> trends,
                                              lastUpdated |-> Today]],
                         written)

(* a delete that clears the histories of every patient *)
DeletePatientHistory_All(patientName, written) ==
    stored' = SavePatientHistories(<<>>, written)

(* deletePatientHistory(patientName) *)
DeletePatientHistory(patientName, written) ==
    LET histories == GetAllPatientHistories
        Others(h) == h.patientName # patientName
        filtered == SelectSeq(histories, Others)
    IN stored' = SavePatientHistories(filtered, written)

-----------------------------------------------------------------------------
(* Callers of the history service                                          *)

MaxAdds == 3

(* files whose reports reach the history; the last one has a day-first     *)
(* date in its name, which extractDateFromFilename reads as month 15       *)
HistFiles ==
    { f \in FilePool : f.type # "text/plain" } \cup
    { [name |-> "lab_15-01-2025.pdf", type |-> "application/pdf",
       nameDate |-> InvalidDate, size |-> 2] }

(* texts of reports of one patient on three days, and no text at all *)
HistTexts ==
    { EmptyText,
      MkText(LongLen, 1, "John Smith", "", CapsAt("hemoglobin", 5, 132)),
      MkText(LongLen, 2, "John Smith", "", CapsAt("hemoglobin", 1, 80)),
      MkText(LongLen, 3, "John Smith", "", CapsAt("hemoglobin", 1, 135)),
      MkText(LongLen, 0, "", "cbc", CapsAt("hemoglobin", 8, 100)) }

(* the Report processFile returns for file f when its text is t *)
ReportFor(f, t, id) ==
    IF f.type = "application/pdf"
    THEN AssembleReport(f, t, MinPdfTextLength, ShortPdfReason, NoParamPdfReason, id)
    ELSE AssembleReport(f, t, MinUsableLength, ShortImageReason, NoParamImageReason, id)

ReportPool(id) == { ReportFor(f, t, id) : f \in HistFiles, t \in HistTexts }

PatientNames == { r.patientName : r \in ReportPool(0) }

PipelineIdle == PipelineStart(<<>>)

HistAddReport ==
    /\ nextId <= MaxAdds
    /\ \E report \in ReportPool(nextId), written \in BOOLEAN :
          AddReport(report, written)
    /\ nextId' = nextId + 1
    /\ UNCHANGED <<files, i, results, bpc, progress, fpc, extractedText,
                   ocrMethod, timer, fresult, numPages, page,
                   ocrPipeline, isOCRLoading, gpModel, attempted, inFlight>>
    /\ UNCHANGED <<upVars, trendVars>>

HistDeletePatientHistory ==
    /\ stored # <<>>
    /\ \E name \in PatientNames, written \in BOOLEAN :
          DeletePatientHistory(name, written)
    /\ UNCHANGED <<pipeVars, upVars, trendVars>>

HistInit == PipelineIdle /\ IdleHistory /\ IdleUpload /\ IdleTrend

HistNext == HistAddReport \/ HistDeletePatientHistory

HistSpec == HistInit /\ [][HistNext]_vars

-----------------------------------------------------------------------------
(* Claims about the stored histories (checked under HistSpec)              *)

(* the reports stored for patientName in the histories hs *)
ReportsOf(hs, patientName) ==
    UNION { { hs[j].reports[m] : m \in 1..Len(hs[j].reports) } :
            j \in { j \in 1..Len(hs) : hs[j].patientName = patientName } }

(* C6: a step that adds a Report removes or replaces no Report added       *)
(* before: every Report stored for a patient before an addReport call is   *)
(* still stored for that patient, unchanged, after it.                     *)
C6_AddingKeepsEveryReport ==
    [][ nextId' = nextId + 1 =>
          \A name \in PatientNames :
             ReportsOf(stored, name) \subseteq ReportsOf(stored', name) ]_vars

(* C7: in every stored state, the parameter trends of each patient are the *)
(* trends computed from the complete report list stored with them, as JSON *)
(* keeps them: reports and trends are written in one write, so no stored   *)
(* state pairs a report list with the trends of an earlier list.           *)
C7_TrendsMatchStoredReports ==
    \A j \in 1..Len(stored) :
       stored[j].parameterTrends \in
          { JsonTrends(t) : t \in CalculateParameterTrends(stored[j].reports) }

C7_Witness ==
    \E j \in 1..Len(stored) :
       \E p \in DOMAIN stored[j].parameterTrends :
          /\ Len(stored[j].reports) = 3
          /\ Len(stored[j].parameterTrends[p].values) = 3
          /\ stored[j].parameterTrends[p].changeRate.kind = "null"

(* C9: in every stored ParameterTrend the TrendPoints are in ascending     *)
(* date order, whatever the order in which the reports were added.         *)
C9_TrendPointsAscending ==
    \A j \in 1..Len(stored) :
       \A p \in DOMAIN stored[j].parameterTrends :
          LET values == stored[j].parameterTrends[p].values
          IN \A a, b \in 1..Len(values) :
                (a < b /\ values[a].date # InvalidDate /\ values[b].date # InvalidDate)
                   => values[a].date <= values[b].date

-----------------------------------------------------------------------------
(* handleFileUpload: the extracted reports are saved one by one            *)

(* processFiles has returned batch; ids are given in the batch's order *)
WithIds(batch, firstId) ==
    [j \in 1..Len(batch) |-> [batch[j] EXCEPT !.id = firstId + j - 1]]

(* from the call to the first save; an empty list ends the upload *)
HandleFileUploadStart ==
    /\ upc = "idle"
    /\ \E batch \in SeqsUpTo(ReportPool(0), MaxFiles) :
          /\ nextId + Len(batch) - 1 <= MaxAdds
          /\ IF Len(batch) = 0
             THEN UNCHANGED <<upVars, nextId>>
             ELSE /\ extractedReports' = WithIds(batch, nextId)
                  /\ nextId' = nextId + Len(batch)
                  /\ k' = 1
                  /\ upc' = "saving"
                  /\ atStart' = stored
    /\ UNCHANGED <<files, i, results, bpc, progress, fpc, extractedText,
                   ocrMethod, timer, fresult, numPages, page,
                   ocrPipeline, isOCRLoading, gpModel, attempted, inFlight>>
    /\ UNCHANGED <<histVars, trendVars>>

(* one iteration of the for loop: await addReport(report) *)
UploadAddReport ==
    /\ upc = "saving"
    /\ k <= Len(extractedReports)
    /\ \E written \in BOOLEAN : AddReport(extractedReports[k], written)
    /\ k' = k + 1
    /\ UNCHANGED <<upc, extractedReports, atStart>>
    /\ UNCHANGED <<pipeVars, trendVars>>

(* after the loop: the reload, the toasts and the finally block *)
UploadFinish ==
    /\ upc = "saving"
    /\ k > Len(extractedReports)
    /\ upc' = "idle" /\ extractedReports' = <<>> /\ k' = 0 /\ atStart' = <<>>
    /\ UNCHANGED <<pipeVars, histVars, trendVars>>

UploadInit == PipelineIdle /\ IdleHistory /\ IdleUpload /\ IdleTrend

UploadNext == HandleFileUploadStart \/ UploadAddReport \/ UploadFinish

UploadSpec == UploadInit /\ [][UploadNext]_vars

(* C8: while reports of the batch being ingested are still to be saved, no *)
(* stored trend is computed from reports of that batch: the trends change  *)
(* only once the whole batch has been saved.                               *)
C8_NoTrendsFromPartOfBatch ==
    (upc = "saving" /\ k <= Len(extractedReports)) =>
        \A j \in 1..Len(stored) :
           \A p \in DOMAIN stored[j].parameterTrends :
              \A m \in 1..Len(stored[j].parameterTrends[p].values) :
                 \A b \in 1..Len(extractedReports) :
                    stored[j].parameterTrends[p].values[m].reportId
                       # extractedReports[b].id

-----------------------------------------------------------------------------
(* The trend engine on its own: the functions applied to a series          *)

MaxPoints == 4

(* values and statuses of the points of an extracted parameter (a value is *)
(* above 0), and the only point a fallback report gives                    *)
TrendValues == {100, 120, 135}
TrendStatuses == {"normal", "low", "high", "critical"}
ManualPoint == <<0, "manual_entry_needed">>

(* series of points already in date order, as calculateParameterTrends     *)
(* hands them over                                                         *)
SeriesOf(choice) ==
    [j \in 1..Len(choice) |->
       [date |-> j, value |-> choice[j][1], status |-> choice[j][2], reportId |-> j]]

TrendInit ==
    /\ PipelineIdle /\ IdleHistory /\ IdleUpload /\ IdleCalls
    /\ \E choice \in SeqsUpTo(TrendValues \X TrendStatuses, MaxPoints)
                       \cup SeqsUpTo({ManualPoint}, MaxPoints) :
          series = SeriesOf(choice)
    /\ trend = <<>>

ComputeTrend ==
    /\ trend = <<>>
    /\ trend' = <<ParameterTrend("hemoglobin", series,
                                 parameterPatterns["hemoglobin"].unit,
                                 parameterPatterns["hemoglobin"].optimal)>>
    /\ UNCHANGED <<series, callVars, pipeVars, histVars, upVars>>

TrendNext == ComputeTrend

TrendSpec == TrendInit /\ [][TrendNext]_vars

(* C10 as stated: the changeRate is the percent change between the two     *)
(* most recent points of the series.                                       *)
C10_ChangeRateOfTwoMostRecent ==
    (trend # <<>> /\ Len(series) >= 2 /\ series[Len(series) - 1].value # 0) =>
        LET r == trend[1].changeRate
            prev == series[Len(series) - 1].value
            last == series[Len(series)].value
        IN r.kind = "num" /\ r.n * prev = (last - prev) * 100 * r.d

(* C10 amended: the changeRate is the percent change between the first and *)
(* the last point of the whole series: 0 for fewer than two points, not a  *)
(* finite number when the first value is 0; for the two-point series 12.0  *)
(* then 13.5 it is +12.5%.                                                 *)
C10_ChangeRateFirstToLast ==
    trend # <<>> =>
        LET r == trend[1].changeRate
            n == Len(series)
        IN /\ n < 2 => (r.kind = "num" /\ r.n = 0)
           /\ (n >= 2 /\ series[1].value # 0) =>
                 /\ r.kind = "num"
                 /\ r.n * series[1].value
                       = (series[n].value - series[1].value) * 100 * r.d
           /\ (n >= 2 /\ series[1].value = 0) => r.kind # "num"
           /\ (n = 2 /\ series[1].value = 120 /\ series[2].value = 135) =>
                 (r.kind = "num" /\ r.n = 25 /\ r.d = 2)

C10_Witness ==
    /\ trend # <<>> /\ Len(series) = 3
    /\ series[1].value = 100 /\ series[2].value = 120 /\ series[3].value = 135
    /\ trend[1].changeRate = [kind |-> "num", n |-> 35, d |-> 1]

-----------------------------------------------------------------------------
(* The direction of a series of values                                     *)

MaxSeries == 5

DirValues == {80, 90, 100, 103, 140, 150}

DirectionInit ==
    /\ PipelineIdle /\ IdleHistory /\ IdleUpload /\ IdleCalls
    /\ \E values \in SeqsUpTo(DirValues, MaxSeries) :
          series = [j \in 1..Len(values) |->
                      [date |-> j, value |-> values[j], status |-> "normal",
                       reportId |-> j]]
    /\ trend = <<>>

DirectionSpec == DirectionInit /\ [][TrendNext]_vars

(* first-to-last change of the series, compared with 5 percent of the      *)
(* first value                                                             *)
FirstValue == series[1].value
LastValue == series[Len(series)].value
ChangeBelowFivePercent ==
    Abs(LastValue - FirstValue) * 100 < 5 * FirstValue

(* the number of places where two consecutive deltas have opposite signs *)
Sign(x) == IF x > 0 THEN 1 ELSE IF x < 0 THEN 0 - 1 ELSE 0
Delta(j) == series[j + 1].value - series[j].value
Reversals ==
    Cardinality({ j \in 1..(Len(series) - 2) :
                    Sign(Delta(j)) * Sign(Delta(j + 1)) = 0 - 1 })

(* C11 as stated: a first-to-last percent change of absolute value below 5 *)
(* makes the direction stable.                                             *)
C11_SmallChangeIsStable ==
    (trend # <<>> /\ Len(series) >= 1 /\ FirstValue # 0 /\ ChangeBelowFivePercent)
        => trend[1].trendDirection = "stable"

(* C11 amended: a first-to-last percent change of absolute value below 5   *)
(* makes the direction stable when the series changes direction fewer than *)
(* twice; with two or more changes of direction it is fluctuating,         *)
(* whatever the percent change.                                            *)
C11_SmallChangeIsStableUnlessFluctuating ==
    (trend # <<>> /\ Len(series) >= 1 /\ FirstValue # 0 /\ ChangeBelowFivePercent)
        => trend[1].trendDirection =
              (IF Reversals >= 2 THEN "fluctuating" ELSE "stable")

C11_Witness ==
    /\ trend # <<>> /\ Len(series) = 3
    /\ FirstValue = 100 /\ series[2].value = 150 /\ LastValue = 103
    /\ trend[1].trendDirection = "stable"

(* C12: the direction is fluctuating exactly when consecutive deltas       *)
(* reverse sign at least twice, as in 10, 15, 9, 14, 8; otherwise it is    *)
(* stable for a percent change of absolute value below 5, else increasing  *)
(* or decreasing by the sign of the first-to-last change.                  *)
C12_FluctuatingIffTwoReversals ==
    trend # <<>> =>
        /\ (trend[1].trendDirection = "fluctuating") <=> (Reversals >= 2)
        /\ Len(series) = 0 => trend[1].trendDirection = "stable"
        /\ (Len(series) >= 1 /\ Reversals < 2 /\ FirstValue # 0) =>
              trend[1].trendDirection =
                 (IF ChangeBelowFivePercent THEN "stable"
                  ELSE IF LastValue > FirstValue THEN "increasing"
                  ELSE "decreasing")
        /\ [j \in 1..Len(series) |-> series[j].value] = <<100, 150, 90, 140, 80>>
              => trend[1].trendDirection = "fluctuating"

C12_Witness ==
    /\ trend # <<>>
    /\ [j \in 1..Len(series) |-> series[j].value] = <<100, 150, 90, 140, 80>>
    /\ trend[1].trendDirection = "fluctuating"

-----------------------------------------------------------------------------
(* Claims about the alerts (checked under TrendSpec)                       *)

HasAlert(type) ==
    \E a \in 1..Len(trend[1].alerts) : trend[1].alerts[a].type = type

(* the indices of the last three points of the series *)
LastThree == { j \in 1..Len(series) : j > Len(series) - 3 }
CountLastThree(statuses) ==
    Cardinality({ j \in LastThree : series[j].status \in statuses })

(* C13: every point of the series whose status is critical has a critical  *)
(* alert of its own in the trend's alerts, for a series of any length, one *)
(* point included.                                                         *)
C13_CriticalPointHasAlert ==
    trend # <<>> =>
        \A j \in 1..Len(series) :
           series[j].status = "critical" =>
              \E a \in 1..Len(trend[1].alerts) :
                 /\ trend[1].alerts[a].type = "critical"
                 /\ trend[1].alerts[a].date = series[j].date
                 /\ trend[1].alerts[a].value = series[j].value

(* C14 as stated: an improvement alert exactly when some point is high or  *)
(* low and at least 2 of the last 3 points are normal.                     *)
C14_ImprovementIffHighOrLowAndRecentNormal ==
    trend # <<>> =>
        (HasAlert("improvement") <=>
            /\ \E j \in 1..Len(series) : series[j].status \in {"high", "low"}
            /\ CountLastThree({"normal"}) >= 2)

(* C14 amended: an improvement alert exactly when some point of the        *)
(* history has a status other than normal (high, low or critical) and at   *)
(* least 2 of the last 3 points are normal.                                *)
C14_ImprovementIffNotNormalAndRecentNormal ==
    trend # <<>> =>
        (HasAlert("improvement") <=>
            /\ \E j \in 1..Len(series) : series[j].status # "normal"
            /\ CountLastThree({"normal"}) >= 2)

C14_Witness ==
    /\ trend # <<>> /\ Len(series) = 4
    /\ series[1].status = "critical"
    /\ \A j \in 2..4 : series[j].status = "normal"
    /\ HasAlert("improvement")

(* C15: a warning alert exactly when at least 2 of the last 3 points are   *)
(* high or low.                                                            *)
C15_WarningIffTwoOfLastThreeAbnormal ==
    trend # <<>> =>
        (HasAlert("warning") <=> CountLastThree({"high", "low"}) >= 2)

C15_Witness ==
    /\ trend # <<>> /\ Len(series) = 4
    /\ series[1].status = "normal" /\ series[2].status = "low"
    /\ series[3].status = "critical" /\ series[4].status = "high"
    /\ HasAlert("warning")

-----------------------------------------------------------------------------
(* The status classifier on its own                                        *)

MaxValue == 1400

(* range expressions of the pattern table: hemoglobin, potassium, hdl, ldl *)
BoundedRanges ==
    { <<Num(120), Sym("-"), Num(155)>>, <<Num(35), Sym("-"), Num(50)>> }
OpenRanges ==
    { <<Sym(">"), Num(400)>>, <<Sym("<"), Num(1000)>> }
(* "", "N/A", "abc-def", "12.0-", "-15.5", "abc-15.5", "1.0-2.0-3.0" *)
MalformedRanges ==
    { <<>>, <<Sym("N/A")>>,
      <<Sym("abc"), Sym("-"), Sym("def")>>,
      <<Num(120), Sym("-")>>,
      <<Sym("-"), Num(155)>>,
      <<Sym("abc"), Sym("-"), Num(155)>>,
      <<Num(10), Sym("-"), Num(20), Sym("-"), Num(30)>> }

ClassifyInit ==
    /\ PipelineIdle /\ IdleHistory /\ IdleUpload
    /\ series = <<>> /\ trend = <<>>
    /\ argValue \in 0..MaxValue
    /\ argRange \in BoundedRanges \cup OpenRanges \cup MalformedRanges
    /\ retStatus = <<>>
    /\ argText = EmptyText /\ retParameters = <<>>
    /\ callers = <<>>

Classify ==
    /\ retStatus = <<>>
    /\ retStatus' = <<GetParameterStatus(argValue, argRange)>>
    /\ UNCHANGED <<argValue, argRange, argText, retParameters, callers, series,
                   trend, pipeVars, histVars, upVars>>

ClassifyNext == Classify

ClassifySpec == ClassifyInit /\ [][ClassifyNext]_vars

(* C16: for a range "min-max" the status is normal for min <= v <= max,    *)
(* low for min*0.7 <= v < min, critical for v < min*0.7, high for          *)
(* max < v <= max*1.3 and critical for v > max*1.3.                        *)
C16_BoundedRangeTiers ==
    (retStatus # <<>> /\ argRange \in BoundedRanges) =>
        LET min == argRange[1].v
            max == argRange[3].v
            v == argValue
        IN retStatus[1] =
              (IF v * 10 < min * 7 THEN "critical"
               ELSE IF v < min THEN "low"
               ELSE IF v <= max THEN "normal"
               ELSE IF v * 10 <= max * 13 THEN "high"
               ELSE "critical")

C16_Witness ==
    /\ retStatus = <<"low">>
    /\ argRange = <<Num(120), Sym("-"), Num(155)>>
    /\ argValue = 84

(* C17: for a range "<max" a value above max is high, and for a range      *)
(* ">min" a value below min is low: never normal, never critical.          *)
C17_OpenRangeOutsideIsHighOrLow ==
    (retStatus # <<>> /\ argRange \in OpenRanges) =>
        /\ (argRange[1] = Sym("<") /\ argValue > argRange[2].v)
              => retStatus[1] = "high"
        /\ (argRange[1] = Sym(">") /\ argValue < argRange[2].v)
              => retStatus[1] = "low"

(* C19: for a range expression that is in no supported grammar, or whose   *)
(* bounds are not numbers, the classifier returns normal for every value.  *)
C19_MalformedRangeIsNormal ==
    (retStatus # <<>> /\ argRange \in MalformedRanges) => retStatus[1] = "normal"

C19_Witness ==
    /\ retStatus = <<"normal">>
    /\ argRange = <<Sym("abc"), Sym("-"), Num(155)>>
    /\ argValue = 300

(* C18: for every Reading of a stored Report, other than the marker of a   *)
(* fallback report, the stored status is what the extractor's classifier   *)
(* and the dashboard's classifier give for the Reading's value and range.  *)
C18_StoredStatusIsRecomputed ==
    \A j \in 1..Len(stored) :
       \A m \in 1..Len(stored[j].reports) :
          \A p \in DOMAIN stored[j].reports[m].parameters \ {"manual_entry_required"} :
             LET reading == stored[j].reports[m].parameters[p]
             IN /\ reading.status = GetParameterStatus(reading.value, reading.optimal)
                /\ reading.status =
                      DashboardGetParameterStatus(reading.value, reading.optimal)

-----------------------------------------------------------------------------
(* Parameter extraction on its own                                         *)

(* captures: 0, 10.0 and 13.2 g/dL; 0, 7.5 K/uL and 7500 /uL; 250 K/uL,    *)
(* 1000, 250000 /uL and 2000000 /uL                                        *)
HemoglobinCaptures == {NoCap, Cap(0), Cap(100), Cap(132)}
WbcCaptures == {NoCap, Cap(0), Cap(75), Cap(75000)}
PlateletsCaptures == {NoCap, Cap(2500), Cap(10000), Cap(2500000), Cap(20000000)}
(* the patterns of a parameter that a text of this specification may match *)
HemoglobinMatched == {1, 5, 13}
WbcMatched == {1, 11}
PlateletsMatched == {9}

CapsWith(hgb, wbc, plt) ==
    [p \in ParamNames |->
       [j \in 1..parameterPatterns[p].patterns |->
          IF p = "hemoglobin" /\ j \in HemoglobinMatched THEN hgb[j]
          ELSE IF p = "wbc" /\ j \in WbcMatched THEN wbc[j]
          ELSE IF p = "platelets" /\ j \in PlateletsMatched THEN plt[j]
          ELSE NoCap]]

ExtractTexts ==
    { MkText(LongLen, 0, "", "", CapsWith(hgb, wbc, plt)) :
         hgb \in [HemoglobinMatched -> HemoglobinCaptures],
         wbc \in [WbcMatched -> WbcCaptures],
         plt \in [PlateletsMatched -> PlateletsCaptures] }

ExtractInit ==
    /\ PipelineIdle /\ IdleHistory /\ IdleUpload
    /\ series = <<>> /\ trend = <<>>
    /\ argValue = 0 /\ argRange = <<>> /\ retStatus = <<>>
    /\ argText \in ExtractTexts
    /\ retParameters = <<>>
    /\ callers = <<>>

Extract ==
    /\ retParameters = <<>>
    /\ retParameters' = <<ExtractParameters(argText)>>
    /\ UNCHANGED <<argValue, argRange, retStatus, argText, callers, series,
                   trend, pipeVars, histVars, upVars>>

ExtractNext == Extract

ExtractSpec == ExtractInit /\ [][ExtractNext]_vars

LeastIndex(S) == IF S = {} THEN 0 ELSE CHOOSE j \in S : \A h \in S : j <= h

(* the patterns whose capture parses to a number >= 0: every match *)
MatchingPatterns(text, p) ==
    {j \in 1..parameterPatterns[p].patterns :
        text.caps[p][j].m /\ text.caps[p][j].v >= 0}

(* the patterns whose capture parses to a number > 0 *)
PositivePatterns(text, p) ==
    {j \in 1..parameterPatterns[p].patterns :
        text.caps[p][j].m /\ text.caps[p][j].v > 0}

-----------------------------------------------------------------------------
(* Absent parameters: reports of one patient that differ in the           *)
(* parameters their texts hold                                             *)

MaxAbsentAdds == 3

AbsentFiles == { f \in FilePool : f.type # "text/plain" }

(* hemoglobin only; white cells only; both; a hemoglobin capture of 0 *)
AbsentTexts ==
    { MkText(LongLen, 1, "John Smith", "", CapsAt("hemoglobin", 5, 132)),
      MkText(LongLen, 2, "John Smith", "", CapsAt("wbc", 1, 75)),
      MkText(LongLen, 3, "John Smith", "",
             [CapsAt("hemoglobin", 1, 100) EXCEPT !["wbc"][11] = Cap(75000)]),
      MkText(LongLen, 2, "John Smith", "cbc", CapsAt("hemoglobin", 1, 0)) }

AbsentPool(id) == { ReportFor(f, t, id) : f \in AbsentFiles, t \in AbsentTexts }

AbsentAddReport ==
    /\ nextId <= MaxAbsentAdds
    /\ \E report \in AbsentPool(nextId), written \in BOOLEAN :
          AddReport(report, written)
    /\ nextId' = nextId + 1
    /\ UNCHANGED <<files, i, results, bpc, progress, fpc, extractedText,
                   ocrMethod, timer, fresult, numPages, page,
                   ocrPipeline, isOCRLoading, gpModel, attempted, inFlight>>
    /\ UNCHANGED <<upVars, trendVars>>

AbsentNext == AbsentAddReport

AbsentSpec == HistInit /\ [][AbsentNext]_vars

(* the TrendPoints of parameter p stored with history h, none without a trend *)
PointsOf(h, p) ==
    IF p \in DOMAIN h.parameterTrends
    THEN { h.parameterTrends[p].values[n] :
              n \in 1..Len(h.parameterTrends[p].values) }
    ELSE {}

(* C21: in every stored Report a parameter of the table that no pattern    *)
(* matched in the Report's text has no key in the Reading map, no Reading  *)
(* of a table parameter has value 0, and the stored trend of a parameter   *)
(* holds no TrendPoint of a Report that has no Reading for it.             *)
C21_AbsentParameterHasNoReadingAndNoPoint ==
    \A j \in 1..Len(stored) :
       \A m \in 1..Len(stored[j].reports) :
          LET r == stored[j].reports[m] IN
          /\ \A f \in AbsentFiles, t \in AbsentTexts :
                r = ReportFor(f, t, r.id) =>
                   \A p \in ParamNames :
                      MatchingPatterns(t, p) = {} => p \notin DOMAIN r.parameters
          /\ \A p \in ParamNames \cap DOMAIN r.parameters :
                r.parameters[p].value # 0
          /\ \A p \in ParamNames \ DOMAIN r.parameters :
                \A point \in PointsOf(stored[j], p) : point.reportId # r.id

(* a patient with a Report that has hemoglobin and no white cell count and *)
(* a Report that has a white cell count and no hemoglobin                  *)
C21_Witness ==
    \E j \in 1..Len(stored) :
       /\ Len(stored[j].reports) = 2
       /\ DOMAIN stored[j].parameterTrends = {"hemoglobin", "wbc"}
       /\ Len(stored[j].parameterTrends["hemoglobin"].values) = 1
       /\ Len(stored[j].parameterTrends["wbc"].values) = 1
       /\ \E m \in 1..2 : DOMAIN stored[j].reports[m].parameters = {"wbc"}

-----------------------------------------------------------------------------
(* The OCR strategies of an image (checked under Spec)                     *)

(* processFile is working on an image *)
ImageInProgress ==
    /\ bpc = "await" /\ fpc \notin {"idle", "done"}
    /\ file.type \in {"image/png", "image/jpeg"}

(* this step is the settling of a promise that lost its race *)
LateResultArrives == \E j \in inFlight : inFlight' = inFlight \ {j}

(* this step is a step of processImageFile *)
ImageStep == ImageInProgress /\ ~LateResultArrives

(* the strategy a position of processImageFile belongs to *)
StrategyOf(pc) ==
    IF pc \in {"img_preprocess", "getOCRPipeline", "gp_load", "img_hf"} THEN 1
    ELSE IF pc = "img_tess" THEN 2
    ELSE IF pc = "img_canvas" THEN 3
    ELSE 0

(* the value of ocrMethod a strategy leaves *)
MethodName == <<"Hugging Face", "Tesseract.js", "Canvas Text Extraction">>

(* the positions where a strategy's recognition call is awaited *)
Recognizing == {"img_hf", "img_tess", "img_canvas"}

(* C22: while an image is processed, every step stays in the current       *)
(* strategy or moves to the next one in the order primary model, secondary *)
(* engine, minimal fallback; a recognition call is awaited once and not    *)
(* repeated; the next strategy starts only when the text so far has fewer  *)
(* than 10 characters; and when the processing ends with a text of at      *)
(* least 10 characters, that text is what the strategy that just ended     *)
(* returned and the Report is assembled from it.                           *)
C22_StrategiesInOrderFirstUsableTextWins ==
    [][ ImageStep =>
          LET s == StrategyOf(fpc)
              next == StrategyOf(fpc')
          IN /\ fpc' = "done" \/ next = s \/ next = s + 1
             /\ fpc \in Recognizing => fpc' # fpc
             /\ next = s + 1 => extractedText'.len < MinUsableLength
             /\ fpc' = "done" =>
                   /\ fresult' = <<ImageReturn(extractedText')>>
                   /\ extractedText'.len >= MinUsableLength =>
                         /\ ocrMethod' = MethodName[s]
                         /\ fpc \in Recognizing
       ]_vars

(* the second strategy returned the text of a Report after the first       *)
(* returned too little                                                     *)
C22_Witness ==
    /\ Settled /\ file.type = "image/png"
    /\ ocrMethod = "Tesseract.js"
    /\ extractedText.len >= MinUsableLength
    /\ Len(fresult) = 1 /\ fresult[1].metadata = <<>>

-----------------------------------------------------------------------------
(* Late results of a timed-out OCR call (checked under Spec)               *)

(* this step is the timeout of the current file's ocr(...) call *)
TimeoutFires == i \in inFlight' \ inFlight

(* C23: the step in which a timed-out OCR call settles changes neither the *)
(* recognized text, nor the Report of the file in progress, nor the        *)
(* Reports collected so far, nor the position of the processing; and the   *)
(* step in which the timeout fires moves on to the next strategy with the  *)
(* call still pending.                                                     *)
C23_LateResultIsDiscarded ==
    [][ /\ LateResultArrives =>
              UNCHANGED <<extractedText, ocrMethod, fresult, results, fpc, bpc, i,
                          progress, nextId>>
        /\ TimeoutFires => fpc' = "img_tess" /\ extractedText' = extractedText
      ]_vars

(* the timed-out call of the first file is still pending when the second   *)
(* file has its Report from what the second strategy recognized            *)
C23_Witness ==
    /\ Settled /\ i = 2
    /\ inFlight = {1}
    /\ ocrMethod = "Tesseract.js"
    /\ Len(fresult) = 1 /\ fresult[1].metadata = <<>>

-----------------------------------------------------------------------------
(* getOCRPipeline under concurrent callers.  A caller runs without         *)
(* interruption between two awaits; each action is one such stretch.       *)

NumCallers == 3

Callers == 1..NumCallers

CallerStart == [pc |-> "start", model |-> 0, ret |-> Null]

CallersInit ==
    /\ PipelineIdle /\ IdleHistory /\ IdleUpload
    /\ series = <<>> /\ trend = <<>>
    /\ argValue = 0 /\ argRange = <<>> /\ retStatus = <<>>
    /\ argText = EmptyText /\ retParameters = <<>>
    /\ callers = [c \in Callers |-> CallerStart]

callerFrame == <<files, i, results, bpc, progress, fpc, extractedText, ocrMethod,
                 timer, fresult, numPages, page, gpModel, nextId, attempted,
                 inFlight, histVars, upVars, series, trend, argValue, argRange,
                 retStatus, argText, retParameters>>

(* the call up to its first await or its return *)
CallerEnter(c) ==
    /\ callers[c].pc = "start"
    /\ IF isOCRLoading
       THEN /\ callers' = [callers EXCEPT ![c].pc = "waiting"]
            /\ UNCHANGED <<ocrPipeline, isOCRLoading>>
       ELSE IF ocrPipeline = Null
       THEN /\ isOCRLoading' = TRUE
            /\ callers' = [callers EXCEPT ![c].pc = "loading", ![c].model = 1]
            /\ UNCHANGED ocrPipeline
       ELSE /\ callers' = [callers EXCEPT ![c].pc = "returned", ![c].ret = ocrPipeline]
            /\ UNCHANGED <<ocrPipeline, isOCRLoading>>
    /\ UNCHANGED callerFrame

(* the 100 ms sleep of the wait loop is over and the flag is down:         *)
(* return ocrPipeline.  While the flag is up the loop sleeps again.        *)
CallerWake(c) ==
    /\ callers[c].pc = "waiting"
    /\ ~isOCRLoading
    /\ callers' = [callers EXCEPT ![c].pc = "returned", ![c].ret = ocrPipeline]
    /\ UNCHANGED <<ocrPipeline, isOCRLoading, callerFrame>>

(* await pipeline(...) resolves: break, finally, return ocrPipeline *)
CallerLoaded(c) ==
    /\ callers[c].pc = "loading"
    /\ ocrPipeline' = "engine"
    /\ isOCRLoading' = FALSE
    /\ callers' = [callers EXCEPT ![c].pc = "returned", ![c].ret = "engine"]
    /\ UNCHANGED callerFrame

(* await pipeline(...) rejects: the next model, or the throw after the     *)
(* last one, through finally                                               *)
CallerLoadFailed(c) ==
    /\ callers[c].pc = "loading"
    /\ IF callers[c].model < NumOcrModels
       THEN /\ callers' = [callers EXCEPT ![c].model = @ + 1]
            /\ UNCHANGED isOCRLoading
       ELSE /\ callers' = [callers EXCEPT ![c].pc = "threw"]
            /\ isOCRLoading' = FALSE
    /\ UNCHANGED <<ocrPipeline, callerFrame>>

CallersNext ==
    \E c \in Callers :
       \/ CallerEnter(c)
       \/ CallerWake(c)
       \/ CallerLoaded(c)
       \/ CallerLoadFailed(c)

CallersSpec == CallersInit /\ [][CallersNext]_vars

(* C24: under every interleaving of the callers, a call of getOCRPipeline  *)
(* that returns normally returns an initialized engine, never null.        *)
C24_ReturnedPipelineIsInitialized ==
    \A c \in Callers :
       callers[c].pc = "returned" => callers[c].ret # Null

-----------------------------------------------------------------------------
(* Files of an unsupported type (checked under Spec)                       *)

(* C25: when processFile is awaited for a file that is neither a PDF nor   *)
(* an image, it has already returned null: no position of the image or PDF *)
(* processing is entered, no timer is armed, no text is recognized; the    *)
(* batch goes on, and no Report of the returned list belongs to such a     *)
(* file.                                                                   *)
C25_UnsupportedFileIsSkipped ==
    /\ (bpc = "await" /\ ~Supported(file)) =>
          /\ fpc = "done" /\ fresult = <<>>
          /\ extractedText = EmptyText /\ ocrMethod = ""
          /\ ~timer /\ numPages = 0 /\ page = 0
          /\ i \notin inFlight
    /\ \A j \in 1..Len(results) :
          \A m \in 1..Len(files) :
             results[j].fileName = files[m].name => Supported(files[m])
    /\ bpc = "done" => Len(attempted) = Len(files)

(* a batch that starts with an unsupported file went on to the image after *)
(* it and returned the image's Report only                                 *)
C25_Witness ==
    /\ bpc = "done" /\ Len(files) = 2
    /\ files[1].type = "text/plain" /\ files[2].type = "image/png"
    /\ Len(results) = 1 /\ results[1].fileName = files[2].name
    /\ attempted = <<1, 2>>

-----------------------------------------------------------------------------
(* The pages of a PDF (checked under Spec)                                 *)

(* processFile is working on a PDF *)
PdfInProgress ==
    /\ bpc = "await" /\ fpc \notin {"idle", "done"}
    /\ file.type = "application/pdf"

(* the positions of the OCR path of a page: rendering the page, loading    *)
(* and calling the engine, Tesseract                                       *)
PdfOcrPath == {"pdf_render", "getOCRPipeline", "gp_load", "pdf_ocr", "pdf_tess"}

(* the positions where a page is being processed *)
PdfPagePositions == {"pdf_copy", "pdf_simple"} \cup PdfOcrPath

(* C26: while a PDF is processed, the page in work is one of the first 3   *)
(* pages of the document; the OCR path of a page is entered only from the  *)
(* direct extraction of that page's embedded text, at a moment when that   *)
(* extraction has added nothing to the text; and the OCR path stays on the *)
(* page it was entered for.                                                *)
C26_FirstThreePagesDirectTextBeforeOcr ==
    [][ PdfInProgress =>
          /\ fpc \in PdfPagePositions =>
                page < PagesToProcess /\ page < numPages
          /\ (fpc' \in PdfOcrPath /\ fpc \notin PdfOcrPath) =>
                /\ fpc = "pdf_simple"
                /\ page' = page /\ extractedText' = extractedText
          /\ (fpc' \in PdfOcrPath /\ fpc \in PdfOcrPath) => page' = page
          /\ fpc' = "done" =>
                page' <= PagesToProcess /\ page' <= numPages'
      ]_vars

(* the third page of a longer PDF is with the OCR engine; the page loop    *)
(* will end after it                                                       *)
C26_Witness ==
    /\ PdfInProgress
    /\ numPages > PagesToProcess
    /\ page = PagesToProcess - 1
    /\ fpc = "pdf_ocr"

-----------------------------------------------------------------------------
(* One patient at a time (checked under HistSpec)                          *)

(* the reports and trends stored for patientName in the histories hs *)
HistoryOf(hs, patientName) ==
    { [reports |-> hs[j].reports, parameterTrends |-> hs[j].parameterTrends] :
         j \in { j \in 1..Len(hs) : hs[j].patientName = patientName } }

(* C27: a step that adds a Report changes the reports and trends of no     *)
(* patient other than the one the added Report is stored for, and a step   *)
(* that deletes a patient's history changes the reports and trends of no   *)
(* other patient.                                                          *)
C27_OtherPatientsUnchanged ==
    [][ \A name \in PatientNames :
          HistoryOf(stored', name) # HistoryOf(stored, name) =>
             IF nextId' = nextId + 1
             THEN \E r \in ReportsOf(stored', name) : r.id = nextId
             ELSE /\ HistoryOf(stored', name) = {}
                  /\ \A other \in PatientNames \ {name} :
                        HistoryOf(stored', other) = HistoryOf(stored, other)
      ]_vars

(* two patients are stored, each with a Report; the second patient's       *)
(* history was created while the first was stored                          *)
C27_Witness ==
    /\ Len(stored) = 2
    /\ stored[1].reports # <<>> /\ stored[2].reports # <<>>
    /\ DOMAIN stored[1].parameterTrends # {}

-----------------------------------------------------------------------------
(* Direction and the first and last value (checked under TrendSpec)        *)

(* C28: for every series of at least two TrendPoints, direction increasing *)
(* implies last value > first value and direction decreasing implies last  *)
(* value < first value, series whose first value is 0 included.            *)
C28_DirectionAgreesWithValues ==
    (trend # <<>> /\ Len(series) >= 2) =>
        /\ trend[1].trendDirection = "increasing" => LastValue > FirstValue
        /\ trend[1].trendDirection = "decreasing" => LastValue < FirstValue


(* C29: no ParameterTrend carries a warning alert and an improvement alert *)
(* at the same time.                                                       *)
C29_NeverWarningAndImprovement ==
    trend # <<>> => ~(HasAlert("warning") /\ HasAlert("improvement"))

(* two high points followed by two normal ones: the last three hold one    *)
(* abnormal and two normal points, and the trend carries the improvement   *)
(* alert alone                                                             *)
C29_Witness ==
    /\ trend # <<>> /\ Len(series) = 4
    /\ series[1].status = "high" /\ series[2].status = "high"
    /\ series[3].status = "normal" /\ series[4].status = "normal"
    /\ HasAlert("improvement") /\ ~HasAlert("warning")

-----------------------------------------------------------------------------
(* Cell counts (checked under ExtractSpec)                                 *)

CellCounts == {"wbc", "platelets"}

(* the capture extractParameters accepted for parameter p of the text *)
AcceptedCapture(text, p) == text.caps[p][FirstPattern(text, p, 1)].v

(* one thousand, in the tenths the values are counted in *)
Thousand == 1000 * 10

(* C30: for white blood cells and platelets, an extracted count greater    *)
(* than 1000 is stored divided by 1000, once, and a count of at most 1000  *)
(* is stored as it was extracted.                                          *)
C30_CellCountsDividedOnce ==
    retParameters # <<>> =>
        \A p \in CellCounts \cap DOMAIN retParameters[1] :
            LET count == AcceptedCapture(argText, p)
                storedValue == retParameters[1][p].value
            IN IF count > Thousand
               THEN storedValue * 1000 = count
               ELSE storedValue = count

(* 250000 platelets per uL are stored as 250, 7500 white cells as 7.5 *)
C30_Witness ==
    /\ retParameters # <<>>
    /\ argText.caps["platelets"][9] = Cap(2500000)
    /\ argText.caps["wbc"][1] = Cap(75000)
    /\ {"wbc", "platelets"} \subseteq DOMAIN retParameters[1]
    /\ retParameters[1]["platelets"].value = 2500
    /\ retParameters[1]["wbc"].value = 75

=============================================================================
